---- MODULE Spec2Model ----
\* Frame lifecycle and CPU/GPU synchronisation of CodotakuDirectX12.cpp:
\* the message loop (wWinMain / WindowProc), App::Render step by step, and the
\* asynchronous FIFO command queue the code submits to.
EXTENDS Integers, Sequences, FiniteSets, TLC

\* ---------------------------------------------------------------- bounds
\* Number of WM_PAINT messages (calls of App::Render) explored.
MaxTicks == 3

\* ---------------------------------------------------------------- constants
FrameCount == 2

PRESENT == "PRESENT"
RENDER_TARGET == "RENDER_TARGET"

Slots == 0 .. (FrameCount - 1)

\* No completion event registered on the fence.
NoEvent == -1

\* Lines 59-60: the client rectangle asked for.
ClientWidth == 800
ClientHeight == 600

\* What AdjustWindowRect adds to the client rectangle for WS_OVERLAPPEDWINDOW
\* without a menu (line 65): (width, height) of the non-client frame and
\* caption.  Lines 70-71 take the two dimensions separately.
Borders == { << 16, 39 >> }

\* (width, height) carried by the WM_SIZE messages explored.
ResizeDims == { << 0, 0 >>, << 640, 480 >> }

\* Member destruction order of App (reverse declaration order, lines 212-226).
\* m_fenceEvent is a raw HANDLE and has no destructor; m_debugController is
\* held only in a build with _DEBUG (ReleaseNext skips what was not acquired).
ReleaseOrder ==
    << "m_fence", "m_commandList", "m_commandAllocator", "m_renderTargets1",
       "m_renderTargets0", "m_rtvHeap", "m_swapChain", "m_commandQueue",
       "m_device", "m_factory", "m_debugController", "m_window" >>

VARIABLES
    pc,               \* position of the CPU thread
    quitPosted,       \* PostQuitMessage has been called
    released,         \* handles released so far by ~App, in order
    m_frameIndex,     \* App::m_frameIndex
    m_fenceValue,     \* App::m_fenceValue
    fence,            \* local `fence` of App::Render
    listState,        \* command list: "closed" or "recording"
    allocMem,         \* commands held in the command allocator's memory
    backBufferIndex,  \* the swap chain's current back buffer index
    gpuQueue,         \* work enqueued on the command queue, FIFO
    gpuPos,           \* commands of the head command list already executed
    completedValue,   \* the fence's completed value
    eventTarget,      \* value registered by SetEventOnCompletion, or NoEvent
    eventSet,         \* m_fenceEvent is signalled (auto-reset event)
    bufState,         \* resource state of each render target
    gpuFault,         \* the GPU executed a command in the wrong resource state
    issued,           \* history: fence values passed to Signal, in order
    ticks,            \* history: one record per call of App::Render
    acquired,         \* handles acquired so far by App::App
    windowShown,      \* ShowWindow has been called
    setupFailedAt,    \* the setup step that threw, or ""
    initCloseFailed,  \* the unchecked Close of line 149 returned a failure
    windowDims,       \* (width, height) of the window, as last notified
    bufDims,          \* (width, height) each swap chain buffer is bound to
    listUsageError,   \* a command list call was made in the wrong list state
    stack             \* call stack of the CPU thread, outermost frame first

vars == << pc, quitPosted, released, m_frameIndex, m_fenceValue, fence,
           listState, allocMem, backBufferIndex, gpuQueue, gpuPos,
           completedValue, eventTarget, eventSet, bufState, gpuFault,
           issued, ticks, acquired, windowShown, setupFailedAt,
           initCloseFailed, windowDims, bufDims, listUsageError, stack >>

\* State written only by App::App and by the WM_SIZE handling.
setupVars == << acquired, windowShown, setupFailedAt, initCloseFailed,
                windowDims, bufDims >>

hostVars == << setupVars, listUsageError >>

cpuVars == << pc, quitPosted, released, m_frameIndex, m_fenceValue, fence,
              listState, allocMem, backBufferIndex, ticks, hostVars, stack >>

\* ---------------------------------------------------------------- helpers
\* The frames of the CPU thread.  wWinMain constructs `app` (line 250) and
\* runs the loop (lines 252-258); DispatchMessageW (line 257) calls
\* WindowProc, whose WM_PAINT case calls App::Render (line 241).
InMain == << "wWinMain" >>
InConstructor == << "wWinMain", "App::App" >>
InRender == << "wWinMain", "DispatchMessageW", "WindowProc", "App::Render" >>

Barrier(buf, from, to) == [op |-> "barrier", buf |-> buf, from |-> from, to |-> to]
ClearRenderTargetView(buf) == [op |-> "clear", buf |-> buf, from |-> RENDER_TARGET, to |-> RENDER_TARGET]

ListItem(t, cmds) == [type |-> "list", tick |-> t, cmds |-> cmds, buf |-> 0, value |-> 0]
PresentItem(t, buf) == [type |-> "present", tick |-> t, cmds |-> << >>, buf |-> buf, value |-> 0]
SignalItem(t, v) == [type |-> "signal", tick |-> t, cmds |-> << >>, buf |-> 0, value |-> v]

\* Index of the tick in progress (0-based); ticks are appended by Paint.
CurTick == Len(ticks) - 1

\* Line 201: m_fence->GetCompletedValue() < fence
NeedWaitNever(completed, f) == FALSE
NeedWaitInclusive(completed, f) == completed <= f
NeedWait(completed, f) == completed < f

\* Line 199: m_fenceValue++
NextFenceValueStuck(v) == v
NextFenceValue(v) == v + 1

\* Line 206: m_frameIndex = m_swapChain->GetCurrentBackBufferIndex()
GetCurrentBackBufferIndexIncrement(cur, surface) == (cur + 1) % FrameCount
GetCurrentBackBufferIndex(cur, surface) == surface

\* Line 197: const UINT64 fence = m_fenceValue
FenceToSignalPrevious(v) == IF v > 0 THEN v - 1 ELSE 0
FenceToSignal(v) == v

\* Lines 182-188: the second barrier of a tick
SecondBarrier(buf) == Barrier(buf, RENDER_TARGET, PRESENT)

\* Lines 149, 191: the state ID3D12GraphicsCommandList::Close leaves the list in
CloseResultNoop(state) == state
CloseResult(state) == "closed"

\* Line 202: SetEventOnCompletion sets the event at once when the fence has
\* already reached the value
EventFiresAtRegistrationNever(completed, f) == FALSE
EventFiresAtRegistration(completed, f) == completed >= f

\* Lines 244-245: WM_SIZE falls to DefWindowProcW; the buffers are not rebuilt
BuffersAfterResize(cur, dims) == cur

SetTick(f, val) == [ticks EXCEPT ![Len(ticks)] = [@ EXCEPT ![f] = val]]

\* ---------------------------------------------------------------- initial state
\* The state on entry to wWinMain (line 250), before App::App runs: nothing
\* acquired, m_fenceValue = 0 by its initializer (line 226).
Init ==
    /\ pc = "RegisterClassExW"
    /\ quitPosted = FALSE
    /\ released = << >>
    /\ backBufferIndex = 0
    /\ m_frameIndex = 0
    /\ m_fenceValue = 0
    /\ fence = 0
    /\ listState = "none"
    /\ allocMem = << >>
    /\ gpuQueue = << >>
    /\ gpuPos = 0
    /\ completedValue = 0
    /\ eventTarget = NoEvent
    /\ eventSet = FALSE
    /\ bufState = [b \in Slots |-> PRESENT]
    /\ gpuFault = FALSE
    /\ issued = << >>
    /\ ticks = << >>
    /\ acquired = {}
    /\ windowShown = FALSE
    /\ setupFailedAt = ""
    /\ initCloseFailed = FALSE
    /\ windowDims = << 0, 0 >>
    /\ bufDims = [b \in Slots |-> << 0, 0 >>]
    /\ listUsageError = FALSE
    /\ stack = InConstructor

gpuUnchanged == UNCHANGED << gpuQueue, gpuPos, completedValue, eventTarget,
                             eventSet, bufState, gpuFault, issued >>


\* ---------------------------------------------------------------- App::App
hostUnchanged == UNCHANGED << quitPosted, released, m_fenceValue, fence,
                              allocMem, ticks, listUsageError >>

\* The call neither returns from its function nor throws.
sameFrame == UNCHANGED stack

\* One call of the constructor that only obtains handles (or nothing).
SetupCall(at, next, handles) ==
    /\ pc = at
    /\ acquired' = acquired \cup handles
    /\ pc' = next
    /\ UNCHANGED << m_frameIndex, listState, backBufferIndex, windowShown,
                    setupFailedAt, initCloseFailed, windowDims, bufDims >>
    /\ hostUnchanged
    /\ gpuUnchanged
    /\ sameFrame

\* Lines 47-57: RegisterClassExW.
RegisterClassExW == SetupCall("RegisterClassExW", "AdjustWindowRect", {})

\* Lines 58-71: AdjustWindowRect; windowWidth / windowHeight.
AdjustWindowRect ==
    /\ pc = "AdjustWindowRect"
    /\ \E b \in Borders :
          windowDims' = << ClientWidth + b[1], ClientHeight + b[2] >>
    /\ pc' = "CreateWindowExW"
    /\ UNCHANGED << m_frameIndex, listState, backBufferIndex, acquired,
                    windowShown, setupFailedAt, initCloseFailed, bufDims >>
    /\ hostUnchanged
    /\ gpuUnchanged
    /\ sameFrame

\* Lines 73-90: CreateWindowExW into m_window (not visible yet).
CreateWindowExW == SetupCall("CreateWindowExW", "GetDebugInterface", { "m_window" })

\* Lines 94-99: only in a build with _DEBUG, and only when
\* D3D12GetDebugInterface succeeds, m_debugController is obtained; a failure
\* is not an error.
GetDebugInterface ==
    \E got \in BOOLEAN :
        SetupCall("GetDebugInterface", "CreateDXGIFactory2",
                  IF got THEN { "m_debugController" } ELSE {})

\* Line 100
CreateDXGIFactory2 == SetupCall("CreateDXGIFactory2", "D3D12CreateDevice", { "m_factory" })

\* Line 101
D3D12CreateDevice == SetupCall("D3D12CreateDevice", "CreateCommandQueue", { "m_device" })

\* Lines 103-104
CreateCommandQueue == SetupCall("CreateCommandQueue", "CreateSwapChainForHwnd", { "m_commandQueue" })

\* Lines 106-119: swap chain of FrameCount buffers of the window's size, held
\* by the local `swapChain`.
CreateSwapChainForHwnd ==
    /\ pc = "CreateSwapChainForHwnd"
    /\ acquired' = acquired \cup { "swapChain" }
    /\ bufDims' = [b \in Slots |-> windowDims]
    /\ backBufferIndex' \in Slots
    /\ pc' = "MakeWindowAssociation"
    /\ UNCHANGED << m_frameIndex, listState, windowShown, setupFailedAt,
                    initCloseFailed, windowDims >>
    /\ hostUnchanged
    /\ gpuUnchanged
    /\ sameFrame

\* Line 121
MakeWindowAssociation == SetupCall("MakeWindowAssociation", "SwapChainAs", {})

\* Lines 123-125: swapChain.As(&m_swapChain);
\* m_frameIndex = m_swapChain->GetCurrentBackBufferIndex().
SwapChainAs ==
    /\ pc = "SwapChainAs"
    /\ acquired' = acquired \cup { "m_swapChain" }
    /\ m_frameIndex' = GetCurrentBackBufferIndex(m_frameIndex, backBufferIndex)
    /\ pc' = "CreateDescriptorHeap"
    /\ UNCHANGED << listState, backBufferIndex, windowShown, setupFailedAt,
                    initCloseFailed, windowDims, bufDims >>
    /\ hostUnchanged
    /\ gpuUnchanged
    /\ sameFrame

\* Lines 127-135
CreateDescriptorHeap == SetupCall("CreateDescriptorHeap", "GetBuffer0", { "m_rtvHeap" })

\* Lines 139-143, frameIndex = 0: GetBuffer and its render target view.
GetBuffer0 == SetupCall("GetBuffer0", "GetBuffer1", { "m_renderTargets0" })

\* Lines 139-143, frameIndex = 1.
GetBuffer1 == SetupCall("GetBuffer1", "CreateCommandAllocator", { "m_renderTargets1" })

\* Line 146
CreateCommandAllocator == SetupCall("CreateCommandAllocator", "CreateCommandList", { "m_commandAllocator" })

\* Line 148: the command list is created open.
CreateCommandList ==
    /\ pc = "CreateCommandList"
    /\ acquired' = acquired \cup { "m_commandList" }
    /\ listState' = "recording"
    /\ pc' = "InitialClose"
    /\ UNCHANGED << m_frameIndex, backBufferIndex, windowShown, setupFailedAt,
                    initCloseFailed, windowDims, bufDims >>
    /\ hostUnchanged
    /\ gpuUnchanged
    /\ sameFrame

\* Line 149: m_commandList->Close(), whose HRESULT is not looked at.
InitialClose ==
    /\ pc = "InitialClose"
    /\ listState' = CloseResult(listState)
    /\ initCloseFailed' \in BOOLEAN
    /\ pc' = "CreateFence"
    /\ UNCHANGED << m_frameIndex, backBufferIndex, acquired, windowShown,
                    setupFailedAt, windowDims, bufDims >>
    /\ hostUnchanged
    /\ gpuUnchanged
    /\ sameFrame

\* Line 150: fence with initial value 0.
CreateFence == SetupCall("CreateFence", "CreateEventW", { "m_fence" })

\* Lines 152-156: auto-reset event, unsignalled.
CreateEventW == SetupCall("CreateEventW", "ShowWindow", { "m_fenceEvent" })

\* Lines 158-159: ShowWindow; the constructor returns, its local `swapChain`
\* gives its reference back, and wWinMain enters its loop.
ShowWindow ==
    /\ pc = "ShowWindow"
    /\ windowShown' = TRUE
    /\ acquired' = acquired \ { "swapChain" }
    /\ pc' = "idle"
    /\ UNCHANGED << m_frameIndex, listState, backBufferIndex, setupFailedAt,
                    initCloseFailed, windowDims, bufDims >>
    /\ hostUnchanged
    /\ gpuUnchanged
    /\ stack' = InMain

\* The constructor's calls whose result is checked.
SetupFalliblePcs ==
    { "RegisterClassExW", "AdjustWindowRect", "CreateWindowExW",
      "CreateDXGIFactory2", "D3D12CreateDevice", "CreateCommandQueue",
      "CreateSwapChainForHwnd", "MakeWindowAssociation", "SwapChainAs",
      "CreateDescriptorHeap", "GetBuffer0", "GetBuffer1",
      "CreateCommandAllocator", "CreateCommandList", "CreateFence",
      "CreateEventW" }

\* The constructor's positions from the creation of the command list's first
\* Close on.
SetupPcsListClosed == { "CreateFence", "CreateEventW", "ShowWindow" }

\* A checked setup call fails: std::system_error or HrException is thrown out
\* of App::App; nothing catches it, the process terminates holding what the
\* earlier calls obtained.
SetupFailure ==
    /\ pc \in SetupFalliblePcs
    /\ setupFailedAt' = pc
    /\ pc' = "terminated"
    /\ UNCHANGED << m_frameIndex, listState, backBufferIndex, acquired,
                    windowShown, initCloseFailed, windowDims, bufDims >>
    /\ hostUnchanged
    /\ gpuUnchanged
    /\ sameFrame

\* WM_SIZE carrying (width, height): WindowProc has no case for it, the
\* message goes to DefWindowProcW (lines 244-245).
Resize ==
    /\ pc = "idle"
    /\ windowShown
    /\ ~quitPosted
    /\ \E d \in ResizeDims :
          /\ windowDims' = d
          /\ bufDims' = BuffersAfterResize(bufDims, d)
    /\ UNCHANGED << pc, m_frameIndex, listState, backBufferIndex, acquired,
                    windowShown, setupFailedAt, initCloseFailed >>
    /\ hostUnchanged
    /\ gpuUnchanged
    /\ sameFrame

\* ---------------------------------------------------------------- message loop
\* wWinMain dispatches WM_PAINT; WindowProc calls app->Render().
Paint ==
    /\ pc = "idle"
    /\ windowShown
    /\ ~quitPosted
    /\ Len(ticks) < MaxTicks
    /\ pc' = "AllocReset"
    /\ ticks' = Append(ticks, [slot |-> m_frameIndex,
                               submitted |-> FALSE, signaled |-> FALSE,
                               seen |-> -1, waitFor |-> -1, waits |-> 0,
                               busyAtReset |-> FALSE, done |-> FALSE,
                               failedAt |-> "", presented |-> FALSE,
                               reopens |-> 0, recorded |-> 0, closes |-> 0,
                               raced |-> FALSE])
    /\ UNCHANGED << quitPosted, released, m_frameIndex, m_fenceValue, fence,
                    listState, allocMem, backBufferIndex >>
    /\ gpuUnchanged
    /\ UNCHANGED hostVars
    /\ stack' = InRender

\* WM_CLOSE: PostQuitMessage(0).
CloseWindow ==
    /\ pc = "idle"
    /\ ~quitPosted
    /\ quitPosted' = TRUE
    /\ UNCHANGED << pc, released, m_frameIndex, m_fenceValue, fence, listState,
                    allocMem, backBufferIndex, ticks >>
    /\ gpuUnchanged
    /\ UNCHANGED hostVars
    /\ sameFrame

\* WM_QUIT ends the loop of wWinMain; `app` goes out of scope.
QuitLoop ==
    /\ pc = "idle"
    /\ quitPosted
    /\ pc' = "destroy"
    /\ UNCHANGED << quitPosted, released, m_frameIndex, m_fenceValue, fence,
                    listState, allocMem, backBufferIndex, ticks >>
    /\ gpuUnchanged
    /\ UNCHANGED hostVars
    /\ sameFrame

\* ~App (implicit): members are destroyed in reverse declaration order; there
\* is no wait on the fence in it.
ReleaseNext ==
    /\ pc = "destroy"
    /\ LET order == SelectSeq(ReleaseOrder, LAMBDA h : h \in acquired)
       IN IF Len(released) < Len(order)
          THEN /\ released' = Append(released, order[Len(released) + 1])
               /\ pc' = pc
          ELSE /\ released' = released
               /\ pc' = "exited"
    /\ UNCHANGED << quitPosted, m_frameIndex, m_fenceValue, fence, listState,
                    allocMem, backBufferIndex, ticks >>
    /\ gpuUnchanged
    /\ UNCHANGED hostVars
    /\ stack' = IF pc' = "exited" THEN << >> ELSE stack

\* ---------------------------------------------------------------- App::Render
\* The calls of App::Render wrapped in ThrowIfFailed.
FalliblePcs == { "AllocReset", "ListReset", "Close", "Present", "Signal", "SetEvent" }

\* ThrowIfFailed on a failed HRESULT (lines 38-41) throws HrException out of
\* App::Render.  No frame of the thread has a handler (the file has no try
\* block), so the exception is not caught at wWinMain or anywhere else: the
\* runtime ends the process from the throw, with every frame still on the
\* stack, no destructor run and no later step of the tick executed.
\* When the failing call is Signal (line 198), line 197 has already copied
\* m_fenceValue into the local `fence`.
DeviceFailure ==
    /\ pc \in FalliblePcs
    /\ pc' = "terminated"
    /\ ticks' = SetTick("failedAt", pc)
    /\ fence' = IF pc = "Signal" THEN FenceToSignal(m_fenceValue) ELSE fence
    /\ UNCHANGED << quitPosted, released, m_frameIndex, m_fenceValue,
                    listState, allocMem, backBufferIndex >>
    /\ gpuUnchanged
    /\ UNCHANGED hostVars
    /\ sameFrame

\* Line 162: m_commandAllocator->Reset()
AllocatorReset ==
    /\ pc = "AllocReset"
    /\ allocMem' = << >>
    /\ ticks' = SetTick("busyAtReset", \E i \in 1 .. Len(gpuQueue) : gpuQueue[i].type = "list")
    /\ pc' = "ListReset"
    /\ UNCHANGED << quitPosted, released, m_frameIndex, m_fenceValue, fence,
                    listState, backBufferIndex >>
    /\ gpuUnchanged
    /\ UNCHANGED hostVars
    /\ sameFrame

\* Line 163: m_commandList->Reset(allocator, nullptr)
CommandListReset ==
    /\ pc = "ListReset"
    /\ IF listState = "closed"
       THEN /\ listState' = "recording"
            /\ ticks' = SetTick("reopens", ticks[Len(ticks)].reopens + 1)
            /\ pc' = "Barrier1"
            /\ listUsageError' = listUsageError
       ELSE \* Reset of a list that is not closed is rejected (E_FAIL): throws
            /\ listState' = listState
            /\ ticks' = SetTick("failedAt", pc)
            /\ pc' = "terminated"
            /\ listUsageError' = TRUE
    /\ UNCHANGED << quitPosted, released, m_frameIndex, m_fenceValue, fence,
                    allocMem, backBufferIndex >>
    /\ gpuUnchanged
    /\ UNCHANGED setupVars
    /\ sameFrame

Record(cmd, next) ==
    /\ IF listState = "recording"
       THEN /\ allocMem' = Append(allocMem, cmd)
            /\ listUsageError' = listUsageError
       ELSE \* recording into a list that is not open is dropped
            /\ allocMem' = allocMem
            /\ listUsageError' = TRUE
    /\ ticks' = SetTick("recorded", ticks[Len(ticks)].recorded + 1)
    /\ pc' = next
    /\ UNCHANGED << quitPosted, released, m_frameIndex, m_fenceValue, fence,
                    listState, backBufferIndex >>
    /\ gpuUnchanged
    /\ UNCHANGED setupVars
    /\ sameFrame

\* Lines 171-178
RecordBarrierToRenderTarget ==
    /\ pc = "Barrier1"
    /\ Record(Barrier(m_frameIndex, PRESENT, RENDER_TARGET), "Clear")

\* Line 180
RecordClear ==
    /\ pc = "Clear"
    /\ Record(ClearRenderTargetView(m_frameIndex), "Barrier2")

\* Lines 182-189
RecordBarrierToPresent ==
    /\ pc = "Barrier2"
    /\ Record(SecondBarrier(m_frameIndex), "Close")

\* Line 191: m_commandList->Close()
CloseList ==
    /\ pc = "Close"
    /\ IF listState = "recording"
       THEN /\ listState' = CloseResult(listState)
            /\ ticks' = SetTick("closes", ticks[Len(ticks)].closes + 1)
            /\ pc' = "Execute"
            /\ listUsageError' = listUsageError
       ELSE \* Close of a list that is already closed is rejected (E_FAIL): throws
            /\ listState' = listState
            /\ ticks' = [ticks EXCEPT ![Len(ticks)] =
                            [@ EXCEPT !.closes = @ + 1, !.failedAt = pc]]
            /\ pc' = "terminated"
            /\ listUsageError' = TRUE
    /\ UNCHANGED << quitPosted, released, m_frameIndex, m_fenceValue, fence,
                    allocMem, backBufferIndex >>
    /\ gpuUnchanged
    /\ UNCHANGED setupVars
    /\ sameFrame

\* Lines 192-193: ExecuteCommandLists; does not block.
ExecuteCommandLists ==
    /\ pc = "Execute"
    /\ IF listState = "closed"
       THEN /\ gpuQueue' = Append(gpuQueue, ListItem(CurTick, allocMem))
            /\ listUsageError' = listUsageError
       ELSE \* a list that is still open is not executed
            /\ gpuQueue' = gpuQueue
            /\ listUsageError' = TRUE
    /\ ticks' = SetTick("submitted", TRUE)
    /\ pc' = "Present"
    /\ UNCHANGED << quitPosted, released, m_frameIndex, m_fenceValue, fence,
                    listState, allocMem, backBufferIndex, gpuPos,
                    completedValue, eventTarget, eventSet, bufState, gpuFault,
                    issued >>
    /\ UNCHANGED setupVars
    /\ sameFrame

\* Line 195: Present(1, 0) queues the current back buffer for display; the
\* surface then picks its next back buffer (surface-defined).
Present ==
    /\ pc = "Present"
    /\ gpuQueue' = Append(gpuQueue, PresentItem(CurTick, backBufferIndex))
    /\ backBufferIndex' \in Slots
    /\ ticks' = SetTick("presented", TRUE)
    /\ pc' = "Signal"
    /\ UNCHANGED << quitPosted, released, m_frameIndex, m_fenceValue, fence,
                    listState, allocMem, gpuPos, completedValue, eventTarget,
                    eventSet, bufState, gpuFault, issued >>
    /\ UNCHANGED hostVars
    /\ sameFrame

\* Lines 197-199: fence = m_fenceValue; Signal(m_fence, fence); m_fenceValue++
Signal ==
    /\ pc = "Signal"
    /\ fence' = FenceToSignal(m_fenceValue)
    /\ gpuQueue' = Append(gpuQueue, SignalItem(CurTick, fence'))
    /\ issued' = Append(issued, fence')
    /\ m_fenceValue' = NextFenceValue(m_fenceValue)
    /\ ticks' = SetTick("signaled", TRUE)
    /\ pc' = "Check"
    /\ UNCHANGED << quitPosted, released, m_frameIndex, listState, allocMem,
                    backBufferIndex, gpuPos, completedValue, eventTarget,
                    eventSet, bufState, gpuFault >>
    /\ UNCHANGED hostVars
    /\ sameFrame

\* Line 201: if (m_fence->GetCompletedValue() < fence)
CheckCompleted ==
    /\ pc = "Check"
    /\ ticks' = [ticks EXCEPT ![Len(ticks)] =
                    [@ EXCEPT !.seen = completedValue, !.waitFor = fence]]
    /\ pc' = IF NeedWait(completedValue, fence) THEN "SetEvent" ELSE "ReadIndex"
    /\ UNCHANGED << quitPosted, released, m_frameIndex, m_fenceValue, fence,
                    listState, allocMem, backBufferIndex >>
    /\ gpuUnchanged
    /\ UNCHANGED hostVars
    /\ sameFrame

\* Line 202: SetEventOnCompletion(fence, m_fenceEvent); the event is set at
\* once when the fence has already reached the value.
SetEventOnCompletion ==
    /\ pc = "SetEvent"
    /\ IF EventFiresAtRegistration(completedValue, fence)
       THEN /\ eventSet' = TRUE
            /\ eventTarget' = eventTarget
       ELSE /\ eventTarget' = fence
            /\ eventSet' = eventSet
    /\ ticks' = [ticks EXCEPT ![Len(ticks)] =
                    [@ EXCEPT !.waits = @ + 1, !.raced = (completedValue >= fence)]]
    /\ pc' = "Wait"
    /\ UNCHANGED << quitPosted, released, m_frameIndex, m_fenceValue, fence,
                    listState, allocMem, backBufferIndex, gpuQueue, gpuPos,
                    completedValue, bufState, gpuFault, issued >>
    /\ UNCHANGED hostVars
    /\ sameFrame

\* Line 203: WaitForSingleObject(m_fenceEvent, INFINITE) returns once the
\* auto-reset event is signalled, and resets it.
WaitForSingleObject ==
    /\ pc = "Wait"
    /\ eventSet
    /\ eventSet' = FALSE
    /\ pc' = "ReadIndex"
    /\ UNCHANGED << quitPosted, released, m_frameIndex, m_fenceValue, fence,
                    listState, allocMem, backBufferIndex, gpuQueue, gpuPos,
                    completedValue, eventTarget, bufState, gpuFault, issued,
                    ticks >>
    /\ UNCHANGED hostVars
    /\ sameFrame

\* Line 206: m_frameIndex = m_swapChain->GetCurrentBackBufferIndex()
ReadBackBufferIndex ==
    /\ pc = "ReadIndex"
    /\ m_frameIndex' = GetCurrentBackBufferIndex(m_frameIndex, backBufferIndex)
    /\ ticks' = SetTick("done", TRUE)
    /\ pc' = "idle"
    /\ UNCHANGED << quitPosted, released, m_fenceValue, fence, listState,
                    allocMem, backBufferIndex >>
    /\ gpuUnchanged
    /\ UNCHANGED hostVars
    /\ stack' = InMain

\* ---------------------------------------------------------------- the GPU
\* The queue executes in submission order (line 193, 195, 198 enqueue).  A
\* command list's commands live in the allocator's memory: after line 162 has
\* reset the allocator under a list that is still pending, a command the GPU
\* fetches is either the one recorded at submission or the one since recorded
\* at the same place.
FetchCommand(item, p) ==
    { item.cmds[p] } \cup (IF p <= Len(allocMem) THEN { allocMem[p] } ELSE {})

WrongState(c) ==
    IF c.op = "barrier" THEN bufState[c.buf] # c.from
                        ELSE bufState[c.buf] # RENDER_TARGET

GpuExecuteCommand ==
    /\ gpuQueue # << >>
    /\ Head(gpuQueue).type = "list"
    /\ \E c \in FetchCommand(Head(gpuQueue), gpuPos + 1) :
          /\ gpuFault' = (gpuFault \/ WrongState(c))
          /\ bufState' = IF c.op = "barrier"
                         THEN [bufState EXCEPT ![c.buf] = c.to]
                         ELSE bufState
    /\ IF gpuPos + 1 = Len(Head(gpuQueue).cmds)
       THEN /\ gpuQueue' = Tail(gpuQueue)
            /\ gpuPos' = 0
       ELSE /\ gpuQueue' = gpuQueue
            /\ gpuPos' = gpuPos + 1
    /\ UNCHANGED << completedValue, eventTarget, eventSet, issued >>
    /\ UNCHANGED cpuVars

GpuPresent ==
    /\ gpuQueue # << >>
    /\ Head(gpuQueue).type = "present"
    /\ gpuFault' = (gpuFault \/ bufState[Head(gpuQueue).buf] # PRESENT)
    /\ gpuQueue' = Tail(gpuQueue)
    /\ UNCHANGED << gpuPos, completedValue, eventTarget, eventSet, bufState, issued >>
    /\ UNCHANGED cpuVars

GpuSignal ==
    /\ gpuQueue # << >>
    /\ Head(gpuQueue).type = "signal"
    /\ completedValue' = Head(gpuQueue).value
    /\ IF eventTarget # NoEvent /\ completedValue' >= eventTarget
       THEN /\ eventSet' = TRUE
            /\ eventTarget' = NoEvent
       ELSE /\ eventSet' = eventSet
            /\ eventTarget' = eventTarget
    /\ gpuQueue' = Tail(gpuQueue)
    /\ UNCHANGED << gpuPos, bufState, gpuFault, issued >>
    /\ UNCHANGED cpuVars

\* ---------------------------------------------------------------- specification
Next ==
    \/ RegisterClassExW
    \/ AdjustWindowRect
    \/ CreateWindowExW
    \/ GetDebugInterface
    \/ CreateDXGIFactory2
    \/ D3D12CreateDevice
    \/ CreateCommandQueue
    \/ CreateSwapChainForHwnd
    \/ MakeWindowAssociation
    \/ SwapChainAs
    \/ CreateDescriptorHeap
    \/ GetBuffer0
    \/ GetBuffer1
    \/ CreateCommandAllocator
    \/ CreateCommandList
    \/ InitialClose
    \/ CreateFence
    \/ CreateEventW
    \/ ShowWindow
    \/ SetupFailure
    \/ Resize
    \/ Paint
    \/ CloseWindow
    \/ QuitLoop
    \/ ReleaseNext
    \/ DeviceFailure
    \/ AllocatorReset
    \/ CommandListReset
    \/ RecordBarrierToRenderTarget
    \/ RecordClear
    \/ RecordBarrierToPresent
    \/ CloseList
    \/ ExecuteCommandLists
    \/ Present
    \/ Signal
    \/ CheckCompleted
    \/ SetEventOnCompletion
    \/ WaitForSingleObject
    \/ ReadBackBufferIndex
    \/ GpuExecuteCommand
    \/ GpuPresent
    \/ GpuSignal

Spec == Init /\ [][Next]_vars

\* The steps of App::App and App::Render that return normally: the CPU thread
\* keeps running.
CpuStep ==
    \/ AllocatorReset
    \/ CommandListReset
    \/ RecordBarrierToRenderTarget
    \/ RecordClear
    \/ RecordBarrierToPresent
    \/ CloseList
    \/ ExecuteCommandLists
    \/ Present
    \/ Signal
    \/ CheckCompleted
    \/ SetEventOnCompletion
    \/ WaitForSingleObject
    \/ ReadBackBufferIndex

\* The GPU eventually executes whatever is at the head of the queue.
GpuStep ==
    \/ GpuExecuteCommand
    \/ GpuPresent
    \/ GpuSignal

FairSpec == Spec /\ WF_vars(CpuStep) /\ WF_vars(GpuStep)

TypeOK ==
    /\ m_frameIndex \in Slots
    /\ backBufferIndex \in Slots
    /\ listState \in { "none", "closed", "recording" }
    /\ completedValue \in 0 .. MaxTicks
    /\ m_fenceValue \in 0 .. MaxTicks
    /\ stack \in { << >>, InMain, InConstructor, InRender }
    /\ pc \in { "idle", "destroy" } => stack = InMain
    /\ pc \in SetupFalliblePcs => stack = InConstructor
    /\ pc \in FalliblePcs => stack = InRender

\* ---------------------------------------------------------------- properties
\* Ticks are numbered from 1 in `ticks`; queue items carry the 0-based index.
TickIds == 1 .. Len(ticks)

\* The GPU has not finished the command list or the present of tick t.
Outstanding(t) ==
    \E i \in 1 .. Len(gpuQueue) :
        /\ gpuQueue[i].tick = t - 1
        /\ gpuQueue[i].type \in { "list", "present" }

\* The CPU is between the start of a tick and the close of its command list.
RecordingPcs == { "AllocReset", "ListReset", "Barrier1", "Clear", "Barrier2", "Close" }

\* The most recent tick before t that recorded into the same ring slot, or 0.
LastUse(t) ==
    LET same == { u \in 1 .. (t - 1) : ticks[u].slot = ticks[t].slot }
    IN IF same = {} THEN 0 ELSE CHOOSE u \in same : \A w \in same : w <= u

\* C1: every tick resets the command allocator and the command list only when
\* the GPU has finished every command list submitted by the earlier ticks.
C1_ResetOnlyWhenGpuIdle ==
    \A t \in TickIds : ~ticks[t].busyAtReset

\* C2: while a tick resets the recorder and records into ring slot i, the
\* fence value issued by the most recent earlier tick that used slot i has
\* been reached (completed value >= that value).
C2_SlotFenceReachedBeforeReuse ==
    (pc \in RecordingPcs \/ pc = "Execute") =>
        LET u == LastUse(Len(ticks))
        IN u # 0 => (ticks[u].signaled /\ completedValue >= issued[u])

C2_Witness ==
    /\ pc = "Barrier1"
    /\ LastUse(Len(ticks)) # 0
    /\ issued[LastUse(Len(ticks))] >= 1

\* C3: for every fence value v issued by the signal step of a tick, the
\* fence's completed value is >= v only once the GPU work enqueued before that
\* signal (the tick's command list and present) has completed.
C3_ReachedOnlyAfterWorkCompleted ==
    \A t \in TickIds :
        (ticks[t].signaled /\ completedValue >= issued[t]) => ~Outstanding(t)

\* C4: at most FrameCount - 1 buffers are in flight, a buffer being in flight
\* from the submission of the command list that writes it until the fence
\* value issued in that tick is reached.
InFlight(b) ==
    \E t \in TickIds :
        /\ ticks[t].slot = b
        /\ ticks[t].submitted
        /\ (~ticks[t].signaled \/ completedValue < issued[t])

C4_AtMostOneBufferInFlight ==
    Cardinality({ b \in Slots : InFlight(b) }) <= FrameCount - 1

C4_Witness ==
    /\ pc = "Wait"
    /\ Len(ticks) >= 3
    /\ Cardinality({ b \in Slots : InFlight(b) }) = FrameCount - 1

\* C5: the fence values issued are 0, 1, 2, ... : strictly increasing by
\* exactly 1 per tick starting from 0, and none is signaled twice.
C5_FenceValuesIncreaseByOne ==
    /\ \A i \in 1 .. Len(issued) : issued[i] = i - 1
    /\ \A i, j \in 1 .. Len(issued) : i # j => issued[i] # issued[j]

C5_Witness ==
    /\ Len(issued) >= 3
    /\ pc = "idle"

\* C6: after a close notification no handle is released before the fence
\* value issued by the last submitted tick has been reached.
C6_NoReleaseBeforeLastFenceReached ==
    released # << >> =>
        /\ quitPosted
        /\ issued # << >> => completedValue >= issued[Len(issued)]

C6_Witness ==
    /\ released # << >>
    /\ Len(issued) >= 2

\* C7: the CPU blocks in a tick exactly when the value signaled in that tick
\* is greater than the completed value read by the check; at most once per
\* tick, and never in tick index 0.
C7_WaitExactlyWhenUnreached ==
    \A t \in TickIds :
        /\ ticks[t].waits <= 1
        /\ ticks[t].waits = 1 => (ticks[t].seen # -1 /\ issued[t] > ticks[t].seen)
        /\ ticks[t].done => (ticks[t].waits = 1 <=> issued[t] > ticks[t].seen)
        /\ t = 1 => ticks[t].waits = 0

\* The wait first occurs in tick index 1.
C7_Witness ==
    /\ Len(ticks) = 2
    /\ ticks[2].waits = 1
    /\ ticks[2].done

\* At most FrameCount - 1 ticks other than the one in progress have GPU work
\* outstanding.
OverlapBounded ==
    Cardinality({ t \in 1 .. (Len(ticks) - 1) : Outstanding(t) }) <= FrameCount - 1

\* C8 as stated: in each tick the fence value the CPU waits for is the one
\* issued FrameCount - 1 ticks earlier (the value issued by the previous
\* tick), and at most FrameCount - 1 frames overlap.
C8_WaitsForPreviousTickValue ==
    /\ \A t \in TickIds :
          (t > FrameCount - 1 /\ ticks[t].waitFor # -1) =>
              ticks[t].waitFor = issued[t - (FrameCount - 1)]
    /\ OverlapBounded

\* C8 amended: in each tick the fence value the CPU waits for is the one
\* issued in that same tick, so the recorder is reused by the next tick only
\* after the value of the tick just before it was checked, and at most
\* FrameCount - 1 earlier frames have GPU work outstanding at any time.
C8_WaitsForOwnTickValue ==
    /\ \A t \in TickIds :
          ticks[t].waitFor # -1 => ticks[t].waitFor = issued[t]
    /\ OverlapBounded

\* Tick index 1 records while the frame of tick index 0 is still on the GPU.
C8_Witness ==
    /\ pc = "Clear"
    /\ Len(ticks) = 2
    /\ ticks[1].waitFor = 0
    /\ Outstanding(1)

\* C9: at the start of every tick (and until its present request)
\* m_frameIndex equals the index the surface reports as its back buffer and
\* lies in [0, FrameCount).
C9_FrameIndexMatchesSurface ==
    (pc \in RecordingPcs \cup { "idle", "Execute", "Present" }) =>
        /\ m_frameIndex = backBufferIndex
        /\ m_frameIndex \in Slots

\* A tick starts after a present that left the surface's index unchanged.
C9_Witness ==
    /\ pc = "AllocReset"
    /\ Len(ticks) >= 2
    /\ ticks[Len(ticks)].slot = ticks[Len(ticks) - 1].slot
    /\ ticks[Len(ticks) - 1].done

\* C10: every tick records exactly the transitions present -> render target
\* before the clear and render target -> present after it on the current
\* buffer; every transition the GPU executes finds the buffer in its declared
\* from-state, the clear executes in the render-target state, and a buffer is
\* in the present state when its present request is processed.
C10_TransitionsMatchBufferState ==
    /\ \A i \in 1 .. Len(gpuQueue) :
          gpuQueue[i].type = "list" =>
              LET b == ticks[gpuQueue[i].tick + 1].slot
              IN gpuQueue[i].cmds = << Barrier(b, PRESENT, RENDER_TARGET),
                                       ClearRenderTargetView(b),
                                       Barrier(b, RENDER_TARGET, PRESENT) >>
    /\ ~gpuFault

\* Every handle App holds when App::App has returned; m_debugController only
\* in a build with _DEBUG where the debug interface is available.
AllHandles ==
    { "m_window", "m_debugController", "m_factory", "m_device",
      "m_commandQueue", "m_swapChain", "m_rtvHeap", "m_renderTargets0",
      "m_renderTargets1", "m_commandAllocator", "m_commandList", "m_fence",
      "m_fenceEvent" }

\* The handles every build holds when App::App has returned.
RequiredHandles == AllHandles \ { "m_debugController" }

\* The CPU is inside App::Render.
RenderPcs == RecordingPcs \cup { "Execute", "Present", "Signal", "Check",
                                 "SetEvent", "Wait", "ReadIndex" }

\* The steps of tick t that come after step `at` have not run.
NothingAfter(t, at) ==
    LET r == ticks[t]
        notRecorded == r.reopens = 0 /\ r.recorded = 0
        notSubmitted == r.closes = 0 /\ ~r.submitted
        notSignaled == ~r.signaled /\ r.waits = 0 /\ ~r.done
    IN CASE at = "AllocReset" -> ~r.busyAtReset /\ notRecorded /\ notSubmitted /\ ~r.presented /\ notSignaled
         [] at = "ListReset" -> notRecorded /\ notSubmitted /\ ~r.presented /\ notSignaled
         [] at = "Close" -> notSubmitted /\ ~r.presented /\ notSignaled
         [] at = "Present" -> ~r.presented /\ notSignaled
         [] at = "Signal" -> notSignaled /\ m_fenceValue = Len(issued)
         [] at = "SetEvent" -> r.waits = 0 /\ ~r.done
         [] OTHER -> FALSE

\* A failed tick is the last one, ran none of its later steps, and the
\* process has ended.
FailedTickStops ==
    \A t \in TickIds :
        ticks[t].failedAt # "" =>
            /\ pc = "terminated"
            /\ t = Len(ticks)
            /\ NothingAfter(t, ticks[t].failedAt)

\* C11: when a device-level operation of a tick fails, the tick stops at that
\* step without running any later step, is not retried, no further tick is
\* started, and the error unwinds to the process entry point (the frames of
\* App::Render, WindowProc and DispatchMessageW are left, wWinMain is the
\* only frame) where the process terminates.
C11_FailedTickUnwindsToEntryPoint ==
    /\ FailedTickStops
    /\ \A t \in TickIds : ticks[t].failedAt # "" => stack = InMain

\* C12: a tick runs only after every setup step has succeeded: when a setup
\* step fails, startup is aborted, the window is never shown and no tick
\* runs; no tick starts before setup is complete.
C12_NoTickUnlessSetupSucceeded ==
    /\ (setupFailedAt # "" \/ initCloseFailed) =>
          (pc = "terminated" /\ ~windowShown /\ ticks = << >>)
    /\ ticks # << >> =>
          (windowShown /\ RequiredHandles \subseteq acquired /\ acquired \subseteq AllHandles)

\* C13 as stated: once a resize notification carrying (W,H), W > 0 and H > 0,
\* has been delivered, the next tick records with all FrameCount buffers
\* rebuilt for the new dimensions.
C13_ResizeRebuildsBuffers ==
    (pc \in RecordingPcs /\ windowDims \in ResizeDims
        /\ windowDims[1] > 0 /\ windowDims[2] > 0) =>
        \A b \in Slots : bufDims[b] = windowDims

\* C14: on every exit path (normal shutdown, failure of a setup step) every
\* handle acquired so far is released exactly once, and none is used after
\* its release.
C14_EveryHandleReleasedOnce ==
    /\ (pc = "exited" \/ (pc = "terminated" /\ setupFailedAt # "")) =>
          \A h \in acquired : \E i \in 1 .. Len(released) : released[i] = h
    /\ \A i, j \in 1 .. Len(released) : i # j => released[i] # released[j]
    /\ (\E i \in 1 .. Len(gpuQueue) : gpuQueue[i].type = "list") =>
          \A i \in 1 .. Len(released) : released[i] # "m_commandAllocator"

\* C15: with a GPU that eventually executes everything enqueued, every call of
\* App::Render returns (or ends the process on a failed call): the fence wait
\* never blocks forever.
C15_RenderReturns ==
    (pc \in RenderPcs) ~> (pc \in { "idle", "terminated" })

\* The GPU reached the value between the check of line 201 and the
\* registration of line 202, and the call returned.
C15_Witness ==
    /\ ticks # << >>
    /\ ticks[Len(ticks)].raced
    /\ ticks[Len(ticks)].done

\* C16: the command list alternates between closed and recording: closed
\* right after creation, reopened by a tick only from the closed state,
\* recorded into only while open, closed once per tick, submitted only closed.
C16_ListAlternates ==
    /\ ~listUsageError
    /\ pc \in { "Barrier1", "Clear", "Barrier2", "Close" } => listState = "recording"
    /\ pc \in SetupPcsListClosed \cup
                { "idle", "AllocReset", "ListReset", "Execute", "Present",
                  "Signal", "Check", "SetEvent", "Wait", "ReadIndex",
                  "destroy", "exited" } => listState = "closed"
    /\ \A t \in TickIds :
          /\ ticks[t].reopens <= 1
          /\ ticks[t].closes <= 1
          /\ ticks[t].recorded > 0 => ticks[t].reopens = 1
          /\ ticks[t].submitted =>
                (ticks[t].reopens = 1 /\ ticks[t].recorded = 3 /\ ticks[t].closes = 1)

C16_Witness ==
    /\ pc = "Execute"
    /\ Len(ticks) >= 2
    /\ ticks[Len(ticks)].closes = 1
    /\ listState = "closed"

\* C17: when App::Render has returned from a tick of index >= 1 the fence has
\* reached the value signaled in that tick and no GPU work of any tick is
\* outstanding; from the third tick on, nothing of an earlier frame is on the
\* GPU while the CPU records.
C17_NothingOutstandingAfterSecondTick ==
    /\ (Len(ticks) >= 2 /\ ticks[Len(ticks)].done) =>
          /\ completedValue >= issued[Len(ticks)]
          /\ gpuQueue = << >>
    /\ (Len(ticks) >= 3 /\ pc \in RecordingPcs) =>
          \A t \in 1 .. (Len(ticks) - 1) : ~Outstanding(t)

C17_Witness ==
    /\ pc = "Clear"
    /\ Len(ticks) = 3
    /\ ticks[2].waits = 1
====
